---- MODULE Spec2Model ----
(***************************************************************************)
(* FabricSimulationComponent (src/sails.ts): a Verlet cloth whose          *)
(* animation loop is started by scroll events and stopped by a chain of    *)
(* timers or by an explosion reset.                                        *)
(*                                                                         *)
(* Numbers.  The source computes in IEEE doubles.  Here a length or a      *)
(* force is an integer count of 1/Scale units, an acceleration an integer  *)
(* count of 1/AccScale units, and a quotient is cut towards zero.  NaN,    *)
(* PInf and NInf are three reserved values outside the finite range, and   *)
(* every operation below treats them as IEEE arithmetic does.              *)
(*                                                                         *)
(* Grid.  The modelled cloth is the segmentsW x segmentsH corner of the    *)
(* source's 40 x 30 cloth, with the source's spacing (60/40 by 50/30) and  *)
(* therefore the source's restDistance.                                    *)
(***************************************************************************)
EXTENDS Integers, Sequences, FiniteSets

(* ------------------------------ bounds -------------------------------- *)
segmentsW == 1
segmentsH == 1
MaxSteps == 4
MaxScrolls == 2
MaxTimers == 4
TweenStages == 2

(* ------------------------------ numbers ------------------------------- *)
Scale == 10000
AccScale == 100
NaN == 2147483647
PInf == NaN - 1
NInf == -PInf
SqrtSafe == 26000
DivSafe == 700000000
(* the step of the clock: every delay of the program is a multiple of it *)
TickMs == 500
MaxInt == NaN

(* F(v) with v computed once, before F uses it *)
Let(v, F(_)) == CHOOSE r \in {F(x) : x \in {v}} : TRUE

IsNaN(a) == a = NaN
IsInf(a) == a = PInf \/ a = NInf

Trunc(a, b) == IF a >= 0 THEN a \div b ELSE -((-a) \div b)
AbsInt(a) == IF a >= 0 THEN a ELSE -a
Sign(a) == IF a > 0 THEN 1 ELSE IF a < 0 THEN -1 ELSE 0

Neg(a) == IF IsNaN(a) THEN NaN ELSE -a
Abs(a) == IF IsNaN(a) THEN NaN ELSE AbsInt(a)
Add(a, b) ==
  IF IsNaN(a) \/ IsNaN(b) THEN NaN
  ELSE IF IsInf(a) THEN (IF IsInf(b) /\ b # a THEN NaN ELSE a)
  ELSE IF IsInf(b) THEN b
  ELSE a + b
Sub(a, b) == Add(a, Neg(b))
(* a > b on doubles: false as soon as one side is NaN *)
Gt(a, b) == ~IsNaN(a) /\ ~IsNaN(b) /\ a > b

(* a * b divided by c, as quotient and remainder, for a >= 0, b >= 0 and   *)
(* 0 < c < DivSafe, by doubling over the binary digits of b: no            *)
(* intermediate value leaves the 32-bit range.                             *)
RECURSIVE DivMod(_, _, _)
DivMod(a, b, c) ==
  IF b = 0 THEN [q |-> 0, r |-> 0]
  ELSE Let(DivMod(a, b \div 2, c), LAMBDA h :
       Let(2 * h.r + (IF b % 2 = 1 THEN a % c ELSE 0), LAMBDA r2 :
         [q |-> 2 * h.q + (IF b % 2 = 1 THEN a \div c ELSE 0) + r2 \div c,
          r |-> r2 % c]))

(* a * b / c cut towards zero, for finite a, b > 0, c > 0; exact, except   *)
(* for a divisor of DivSafe or more, where a and c are first divided by a  *)
(* common factor.                                                          *)
MulDiv(a, b, c) ==
  IF AbsInt(a) <= MaxInt \div b THEN Trunc(a * b, c)
  ELSE IF c < DivSafe THEN Sign(a) * DivMod(AbsInt(a), b, c).q
  ELSE LET k == AbsInt(a) \div (MaxInt \div b) + 1
       IN  Trunc(Trunc(a, k) * b, (c + k - 1) \div k)

(* a * (n / d) for a rational constant n / d, n # 0, d > 0 *)
MulQ(a, n, d) ==
  IF IsNaN(a) THEN NaN
  ELSE IF IsInf(a) THEN (IF n > 0 THEN a ELSE -a)
  ELSE Sign(n) * MulDiv(a, AbsInt(n), d)

RECURSIVE IsqrtIter(_, _)
IsqrtIter(n, x) ==
  Let((x + n \div x) \div 2, LAMBDA y : IF y >= x THEN x ELSE IsqrtIter(n, y))
Isqrt(n) == IF n < 2 THEN n ELSE IsqrtIter(n, 46340)

Max3(a, b, c) ==
  LET m == IF a >= b THEN a ELSE b IN IF m >= c THEN m ELSE c

(* ------------------------------ Vector3 ------------------------------- *)
Vec(a, b, c) == [x |-> a, y |-> b, z |-> c]
Zero3 == Vec(0, 0, 0)
Axes == {"x", "y", "z"}
VAdd(u, v) == Vec(Add(u.x, v.x), Add(u.y, v.y), Add(u.z, v.z))
VSub(u, v) == Vec(Sub(u.x, v.x), Sub(u.y, v.y), Sub(u.z, v.z))
VMulQ(u, n, d) == Vec(MulQ(u.x, n, d), MulQ(u.y, n, d), MulQ(u.z, n, d))
VHasNaN(u) == IsNaN(u.x) \/ IsNaN(u.y) \/ IsNaN(u.z)
VHasInf(u) == IsInf(u.x) \/ IsInf(u.y) \/ IsInf(u.z)

(* A number too wide for 32 bits, as three digits in base Scale: the     *)
(* value of <<h, m, l>> is h * Scale^2 + m * Scale + l.                    *)
Carry(h, m, l) ==
  Let(m + l \div Scale, LAMBDA m2 : <<h + m2 \div Scale, m2 % Scale, l % Scale>>)
Square(r) ==
  Let(r \div Scale, LAMBDA ra : Let(r % Scale, LAMBDA rb :
    Carry(ra * ra, 2 * ra * rb, rb * rb)))
SumOfSquares(u) ==
  LET A(c) == AbsInt(c) \div Scale
      B(c) == AbsInt(c) % Scale
  IN  Carry(A(u.x) * A(u.x) + A(u.y) * A(u.y) + A(u.z) * A(u.z),
            2 * (A(u.x) * B(u.x) + A(u.y) * B(u.y) + A(u.z) * B(u.z)),
            B(u.x) * B(u.x) + B(u.y) * B(u.y) + B(u.z) * B(u.z))
Leq(m, n) ==
  \/ m[1] < n[1]
  \/ m[1] = n[1] /\ m[2] < n[2]
  \/ m[1] = n[1] /\ m[2] = n[2] /\ m[3] <= n[3]

(* the largest r in lo .. hi whose square is at most n *)
RECURSIVE RootBetween(_, _, _)
RootBetween(lo, hi, n) ==
  IF lo >= hi THEN lo
  ELSE Let((lo + hi + 1) \div 2, LAMBDA mid :
         IF Leq(Square(mid), n) THEN RootBetween(mid, hi, n)
         ELSE RootBetween(lo, mid - 1, n))

(* u's length to within a factor 1 + 2 / SqrtSafe, from below and from     *)
(* above: the components divided by k fit for squaring                     *)
LengthBelow(u, k) ==
  k * Isqrt(Trunc(u.x, k) * Trunc(u.x, k) + Trunc(u.y, k) * Trunc(u.y, k)
              + Trunc(u.z, k) * Trunc(u.z, k))
LengthAbove(u, k) ==
  LET Up(a) == AbsInt(a) \div k + 1
  IN  k * (Isqrt(Up(u.x) * Up(u.x) + Up(u.y) * Up(u.y) + Up(u.z) * Up(u.z)) + 1)

(* Vector3.length(): sqrt(x*x + y*y + z*z), cut to a whole number of       *)
(* 1/Scale units.  The root is exact for components below SqrtSafe * Scale *)
(* in magnitude; beyond, it is LengthAbove.                                *)
Length(u) ==
  IF VHasNaN(u) THEN NaN
  ELSE IF VHasInf(u) THEN PInf
  ELSE Let(Max3(AbsInt(u.x), AbsInt(u.y), AbsInt(u.z)), LAMBDA m :
         IF m < SqrtSafe
         THEN Isqrt(u.x * u.x + u.y * u.y + u.z * u.z)
         ELSE Let(m \div SqrtSafe + 1, LAMBDA k :
                IF k <= Scale
                THEN RootBetween(LengthBelow(u, k), LengthAbove(u, k), SumOfSquares(u))
                ELSE LengthAbove(u, k)))

(* A Float32Array element: m / 2^k with |m| < 2^24, or NaN, PInf, NInf in  *)
(* m.  Scaled(a, m, r, k) doubles until the mantissa has 24 bits, keeping  *)
(* a * 2^k = m * Scale + r.                                                *)
MantissaBits == 24
RECURSIVE Scaled(_, _, _, _)
Scaled(a, m, r, k) ==
  IF m >= 2 ^ (MantissaBits - 1) THEN [m |-> m, r |-> r, k |-> k]
  ELSE Scaled(a, 2 * m + (IF 2 * r >= Scale THEN 1 ELSE 0), (2 * r) % Scale, k + 1)

(* storing a number in a Float32Array: rounded to the nearest float32,     *)
(* ties to the even mantissa                                               *)
fround(a) ==
  IF IsNaN(a) \/ IsInf(a) THEN [m |-> a, k |-> 0]
  ELSE IF a = 0 THEN [m |-> 0, k |-> 0]
  ELSE Let(Scaled(AbsInt(a), AbsInt(a) \div Scale, AbsInt(a) % Scale, 0), LAMBDA s :
         Let(IF 2 * s.r > Scale \/ (2 * s.r = Scale /\ s.m % 2 = 1)
             THEN s.m + 1 ELSE s.m, LAMBDA m :
           IF m = 2 ^ MantissaBits
           THEN [m |-> Sign(a) * (m \div 2), k |-> s.k - 1]
           ELSE [m |-> Sign(a) * m, k |-> s.k]))

(* a float32 and a number are the same number *)
SameNumber(f, a) ==
  /\ ~IsNaN(a)
  /\ f = fround(a)
  /\ IsInf(a) \/ a = 0
       \/ Scaled(AbsInt(a), AbsInt(a) \div Scale, AbsInt(a) % Scale, 0).r = 0

(* |f| > limit, for a whole limit of at least 8 *)
Exceeds(f, limit) ==
  IF IsNaN(f.m) THEN FALSE
  ELSE IF IsInf(f.m) THEN TRUE
  ELSE f.k < MantissaBits - 3 /\ AbsInt(f.m) > limit * 2 ^ f.k

(* ------------------------- program constants -------------------------- *)
ClothWidthSrc == 60
ClothHeightSrc == 50
SegmentsWSrc == 40
SegmentsHSrc == 30
MassDen == 10
DampingPct == 2
MAX_DISPLACEMENT == 5
maxScrollVelocity == 15
scrollStopDelay == 500
stabilityDelay == 1500
recheckDelay == 500
TimeStepDen == 60
numIterations == 5
ExplodeLimit == 1000

clothWidth == (ClothWidthSrc * Scale * segmentsW) \div SegmentsWSrc
clothHeight == (ClothHeightSrc * Scale * segmentsH) \div SegmentsHSrc
(* constructor: restDistance = (clothWidth / segmentsW) * 0.9 *)
restDistance == ((clothWidth \div segmentsW) * 9) \div 10

NumParticles == (segmentsW + 1) * (segmentsH + 1)
PIdx == 1 .. NumParticles

(* index(u, v), shifted by one: sequences start at 1 *)
index(u, v) == u + v * (segmentsW + 1) + 1

(* ------------------------------ Particle ------------------------------ *)
NewParticle(pos) ==
  [position |-> pos, oldPosition |-> pos, acceleration |-> Zero3, pinned |-> FALSE]

(* Particle.addForce: acc = force / mass, dropped whole when a component   *)
(* is NaN.  force is in 1/Scale units, acceleration in 1/AccScale units.   *)
addForce(p, force) ==
  Let(VMulQ(force, MassDen * AccScale, Scale), LAMBDA acc :
    IF ~VHasNaN(acc)
    THEN [p EXCEPT !.acceleration = VAdd(p.acceleration, acc)]
    ELSE p)

(* ----------------------------- createCloth ---------------------------- *)
clothFunction(u, v) ==
  Vec((u * clothWidth) \div segmentsW - clothWidth \div 2,
      (v * clothHeight) \div segmentsH - clothHeight \div 2,
      0)

(* createParticles with the two loops exchanged: u outer, v inner *)
createParticlesColumnMajor ==
  [i \in PIdx |->
     LET u == (i - 1) \div (segmentsH + 1)
         v == (i - 1) % (segmentsH + 1)
     IN  [NewParticle(clothFunction(u, v)) EXCEPT !.pinned = (v = 0)]]

createParticles ==
  [i \in PIdx |->
     LET u == (i - 1) % (segmentsW + 1)
         v == (i - 1) \div (segmentsW + 1)
     IN  [NewParticle(clothFunction(u, v)) EXCEPT !.pinned = (v = 0)]]

NewConstraint(a, b, d) == [p1 |-> a, p2 |-> b, distance |-> d]

(* the double loop over the cells: for each (u, v) the link to the right,  *)
(* then the link below                                                     *)
cellConstraints ==
  [k \in 1 .. 2 * segmentsW * segmentsH |->
     LET cell == (k - 1) \div 2
         u == cell % segmentsW
         v == cell \div segmentsW
     IN  IF k % 2 = 1
         THEN NewConstraint(index(u, v), index(u + 1, v), restDistance)
         ELSE NewConstraint(index(u, v), index(u, v + 1), restDistance)]
lastRowConstraints ==
  [k \in 1 .. segmentsW |->
     NewConstraint(index(k - 1, segmentsH), index(k, segmentsH), restDistance)]
lastColumnConstraints ==
  [k \in 1 .. segmentsH |->
     NewConstraint(index(segmentsW, k - 1), index(segmentsW, k), restDistance)]
(* every link to the right, row by row, then every link down *)
createConstraintsHorizontalFirst ==
  [k \in 1 .. segmentsW * (segmentsH + 1) |->
     NewConstraint(index((k - 1) % segmentsW, (k - 1) \div segmentsW),
                   index(((k - 1) % segmentsW) + 1, (k - 1) \div segmentsW),
                   restDistance)]
    \o [k \in 1 .. segmentsH * (segmentsW + 1) |->
          NewConstraint(index((k - 1) % (segmentsW + 1), (k - 1) \div (segmentsW + 1)),
                        index((k - 1) % (segmentsW + 1), ((k - 1) \div (segmentsW + 1)) + 1),
                        restDistance)]

(* createCloth() without its last loop *)
createConstraintsNoLastColumn == cellConstraints \o lastRowConstraints

createConstraints == cellConstraints \o lastRowConstraints \o lastColumnConstraints

(* new THREE.PlaneGeometry(clothWidth, clothHeight, segmentsW, segmentsH): *)
(* the position attribute of a new mesh, row by row from the top edge      *)
(* y = clothHeight / 2 down, three slots per vertex, version 0             *)
PlaneGeometry ==
  [array |-> [j \in 1 .. 3 * NumParticles |->
                LET i == (j - 1) \div 3
                    at == clothFunction(i % (segmentsW + 1), i \div (segmentsW + 1))
                IN  IF j % 3 = 1 THEN fround(at.x)
                    ELSE IF j % 3 = 2 THEN fround(-at.y)
                    ELSE fround(0)],
   version |-> 0]

(* updateClothGeometry() that writes x and y and leaves the z slots *)
updateClothGeometryFlat(g, ps) ==
  [array |-> [j \in 1 .. 3 * NumParticles |->
                LET p == ps[(j - 1) \div 3 + 1]
                IN  IF j % 3 = 1 THEN fround(p.position.x)
                    ELSE IF j % 3 = 2 THEN fround(p.position.y)
                    ELSE g.array[j]],
   version |-> g.version + 1]

(* updateClothGeometry(): positions[3i], [3i + 1], [3i + 2] = x, y, z of   *)
(* particle i, stored in a Float32Array; needsUpdate = true raises the     *)
(* attribute's version                                                     *)
updateClothGeometry(g, ps) ==
  [array |-> [j \in 1 .. 3 * NumParticles |->
                LET p == ps[(j - 1) \div 3 + 1]
                IN  IF j % 3 = 1 THEN fround(p.position.x)
                    ELSE IF j % 3 = 2 THEN fround(p.position.y)
                    ELSE fround(p.position.z)],
   version |-> g.version + 1]

(* ------------------------- Constraint.satisfy ------------------------- *)
(* p1p2 * (1 - distance / currentDist) * 0.5, for currentDist not 0, not NaN *)
(* the whole correction, not half of it *)
correctionWhole(p1p2, distance, currentDist) ==
  LET Corr(q) == IF IsInf(currentDist) THEN q
                 ELSE Let(MulDiv(q, distance, currentDist), LAMBDA m : Sub(q, m))
  IN  Vec(Corr(p1p2.x), Corr(p1p2.y), Corr(p1p2.z))

correctionHalf(p1p2, distance, currentDist) ==
  LET Corr(q) == IF IsInf(currentDist) THEN q
                 ELSE Let(MulDiv(q, distance, currentDist), LAMBDA m : Sub(q, m))
      Half(q) == Let(Corr(q), LAMBDA r : MulQ(r, 1, 2))
  IN  Vec(Half(p1p2.x), Half(p1p2.y), Half(p1p2.z))

(* satisfy() without its two pinned tests *)
satisfyMovesPinned(ps, c) ==
  Let(VSub(ps[c.p2].position, ps[c.p1].position), LAMBDA p1p2 :
  Let(Length(p1p2), LAMBDA currentDist :
    IF currentDist = 0 \/ IsNaN(currentDist) THEN ps
    ELSE Let(correctionHalf(p1p2, c.distance, currentDist), LAMBDA half :
           [ps EXCEPT ![c.p1].position = VAdd(@, half),
                      ![c.p2].position = VSub(@, half)])))

(* satisfy() that subtracts the half correction from both endpoints *)
satisfySameSign(ps, c) ==
  Let(VSub(ps[c.p2].position, ps[c.p1].position), LAMBDA p1p2 :
  Let(Length(p1p2), LAMBDA currentDist :
    IF currentDist = 0 \/ IsNaN(currentDist) THEN ps
    ELSE Let(correctionHalf(p1p2, c.distance, currentDist), LAMBDA half :
           [ps EXCEPT
              ![c.p1].position = IF ~ps[c.p1].pinned THEN VSub(@, half) ELSE @,
              ![c.p2].position = IF ~ps[c.p2].pinned THEN VSub(@, half) ELSE @])))

satisfy(ps, c) ==
  Let(VSub(ps[c.p2].position, ps[c.p1].position), LAMBDA p1p2 :
  Let(Length(p1p2), LAMBDA currentDist :
    IF currentDist = 0 \/ IsNaN(currentDist) THEN ps
    ELSE Let(correctionHalf(p1p2, c.distance, currentDist), LAMBDA half :
           [ps EXCEPT
              ![c.p1].position = IF ~ps[c.p1].pinned THEN VAdd(@, half) ELSE @,
              ![c.p2].position = IF ~ps[c.p2].pinned THEN VSub(@, half) ELSE @])))

(* for (const constraint of this.constraints) constraint.satisfy() *)
RECURSIVE satisfyFrom(_, _, _)
satisfyFrom(ps, cs, k) ==
  IF k > Len(cs) THEN ps
  ELSE Let(satisfy(ps, cs[k]), LAMBDA q : satisfyFrom(q, cs, k + 1))

RECURSIVE relax(_, _, _)
relax(ps, cs, n) ==
  IF n = 0 THEN ps
  ELSE Let(satisfyFrom(ps, cs, 1), LAMBDA q : relax(q, cs, n - 1))

(* ------------------------------ simulate ------------------------------ *)
gravity == Vec(0, -((2 * Scale) \div 10), 0)

(* the wind pushing along its own axis *)
applyForcesAlongY(p, wf) ==
  Let(addForce(p, gravity), LAMBDA g :
  Let(addForce(g, Vec(0, wf.y, 0)), LAMBDA w :
  addForce(w, Vec(0, 0, MulQ(p.position.z, -2, 100)))))

applyForces(p, wf) ==
  Let(addForce(p, gravity), LAMBDA g :
  Let(addForce(g, Vec(0, 0, wf.y)), LAMBDA w :
  addForce(w, Vec(0, 0, MulQ(p.position.z, -2, 100)))))

(* displacement.normalize().multiplyScalar(MAX_DISPLACEMENT); normalize()  *)
(* multiplies by 1 / length, and 1 / Infinity is 0                         *)
(* each component cut to MAX_DISPLACEMENT on its own *)
clampEachAxis(d, len) ==
  LET C(q) == IF AbsInt(q) > MAX_DISPLACEMENT * Scale
              THEN Sign(q) * MAX_DISPLACEMENT * Scale ELSE q
  IN  Vec(C(d.x), C(d.y), C(d.z))

clampDisplacement(d, len) ==
  LET C(q) == IF IsInf(len) THEN (IF IsInf(q) THEN NaN ELSE 0)
              ELSE MulDiv(q, MAX_DISPLACEMENT * Scale, len)
  IN  Vec(C(d.x), C(d.y), C(d.z))

(* position + (position - oldPosition) * DRAG + acceleration * timeStep^2 *)
verletPosition(p) ==
  Let(VMulQ(VSub(p.position, p.oldPosition), 100 - DampingPct, 100), LAMBDA vel :
  Let(VMulQ(p.acceleration, Scale \div AccScale, TimeStepDen * TimeStepDen), LAMBDA acc :
  VAdd(VAdd(p.position, vel), acc)))

(* the integration without its displacement cut *)
committedUnclamped(position, newPos) == newPos

(* the position the integration commits: newPos, its displacement cut to   *)
(* MAX_DISPLACEMENT                                                        *)
committedPosition(position, newPos) ==
  Let(VSub(newPos, position), LAMBDA displacement :
  Let(Length(displacement), LAMBDA len :
    IF Gt(len, MAX_DISPLACEMENT * Scale)
    THEN VAdd(position, clampDisplacement(displacement, len))
    ELSE newPos))

integrate(p, wf) ==
  Let(applyForces(p, wf), LAMBDA f :
  Let(verletPosition(f), LAMBDA newPos :
  Let(committedPosition(f.position, newPos), LAMBDA committed :
    [f EXCEPT !.oldPosition = f.position,
              !.position = committed,
              !.acceleration = Zero3])))

integrateAll(ps, wf) ==
  [i \in PIdx |-> IF ~ps[i].pinned THEN integrate(ps[i], wf) ELSE ps[i]]

(* the explosion test without its isNaN() half *)
checkMagnitudeOnly(ps) ==
  \E i \in PIdx :
    LET q == ps[i].position
    IN  \/ Gt(Abs(q.x), ExplodeLimit * Scale)
        \/ Gt(Abs(q.y), ExplodeLimit * Scale)
        \/ Gt(Abs(q.z), ExplodeLimit * Scale)

checkSimulationExploded(ps) ==
  \E i \in PIdx :
    LET q == ps[i].position
    IN  \/ IsNaN(q.x) \/ IsNaN(q.y) \/ IsNaN(q.z)
        \/ Gt(Abs(q.x), ExplodeLimit * Scale)
        \/ Gt(Abs(q.y), ExplodeLimit * Scale)
        \/ Gt(Abs(q.z), ExplodeLimit * Scale)

(* The order in which a simulate() call goes through its phases: for each  *)
(* unpinned particle its forces and then its integration, the relaxation   *)
(* iterations over the constraints, the explosion check, and then          *)
(* fullReset() or updateClothGeometry().                                   *)
Phase(op, i, n) == [op |-> op, i |-> i, n |-> n]
particlePhases(ps) ==
  LET unpinned == SelectSeq([i \in PIdx |-> i], LAMBDA i : ~ps[i].pinned)
  IN  [j \in 1 .. 2 * Len(unpinned) |->
         IF j % 2 = 1 THEN Phase("addForce", unpinned[(j + 1) \div 2], 0)
         ELSE Phase("integrate", unpinned[j \div 2], 0)]
relaxPhases(cs) ==
  [j \in 1 .. numIterations * Len(cs) |->
     Phase("satisfy", ((j - 1) % Len(cs)) + 1, ((j - 1) \div Len(cs)) + 1)]
(* the explosion check moved before the relaxation *)
phasesCheckEarly(ps, cs, exploded) ==
  particlePhases(ps)
    \o <<Phase("checkSimulationExploded", 0, 0)>>
    \o relaxPhases(cs)
    \o <<Phase(IF exploded THEN "fullReset" ELSE "updateClothGeometry", 0, 0)>>
phasesOf(ps, cs, exploded) ==
  particlePhases(ps)
    \o relaxPhases(cs)
    \o <<Phase("checkSimulationExploded", 0, 0),
         Phase(IF exploded THEN "fullReset" ELSE "updateClothGeometry", 0, 0)>>

(* the particles when simulate() reaches its explosion check *)
stepped(ps, cs, wf) ==
  Let(integrateAll(ps, wf), LAMBDA q : relax(q, cs, numIterations))

(* simulate() with a fullReset() that leaves the wind force as it is *)
simulateKeepsWind(ps, cs, wf) ==
  Let(stepped(ps, cs, wf), LAMBDA q :
    IF checkSimulationExploded(q)
    THEN [particles |-> createParticles, constraints |-> createConstraints,
          windForce |-> wf, exploded |-> TRUE, geometry |-> PlaneGeometry,
          phases |-> phasesOf(ps, cs, TRUE)]
    ELSE [particles |-> q, constraints |-> cs, windForce |-> wf,
          exploded |-> FALSE, phases |-> phasesOf(ps, cs, FALSE)])

(* a reset that puts the particles it finds back at initialPositions and   *)
(* keeps everything else of them                                           *)
fullResetInPlace(ps, cs) ==
  [particles |-> [i \in PIdx |->
                    [ps[i] EXCEPT !.position = createParticles[i].position]],
   constraints |-> cs, windForce |-> Zero3, exploded |-> TRUE,
   geometry |-> PlaneGeometry]

(* fullReset(): createCloth() replaces this.particles and this.constraints *)
(* by newly built ones, then windForce.set(0, 0, 0)                        *)
fullReset(ps, cs) ==
  [particles |-> createParticles, constraints |-> createConstraints,
   windForce |-> Zero3, exploded |-> TRUE, geometry |-> PlaneGeometry]

simulate(ps, cs, wf) ==
  Let(stepped(ps, cs, wf), LAMBDA q :
    IF checkSimulationExploded(q)
    THEN Let(fullReset(q, cs), LAMBDA r :
           [particles |-> r.particles, constraints |-> r.constraints,
            windForce |-> r.windForce, exploded |-> TRUE, geometry |-> r.geometry,
            phases |-> phasesOf(ps, cs, TRUE)])
    ELSE [particles |-> q, constraints |-> cs, windForce |-> wf,
          exploded |-> FALSE, phases |-> phasesOf(ps, cs, FALSE)])

(* isClothStable() with the z threshold applied to the whole displacement *)
isClothStableLoose(ps) ==
  \A i \in PIdx :
    ps[i].pinned \/
      LET velocity == Length(VSub(ps[i].position, ps[i].oldPosition))
      IN  ~Gt(velocity, (5 * Scale) \div 100)

isClothStable(ps) ==
  \A i \in PIdx :
    ps[i].pinned \/
      LET velocity == Length(VSub(ps[i].position, ps[i].oldPosition))
          zVelocity == Abs(Sub(ps[i].position.z, ps[i].oldPosition.z))
      IN  ~(Gt(velocity, Scale \div 100) \/ Gt(zVelocity, (5 * Scale) \div 100))

(* ------------------------------- state -------------------------------- *)
VARIABLES
  particles,          \* Particle[], in index(u, v) order
  constraints,        \* Constraint[], in construction order
  windForce,          \* THREE.Vector3
  tweens,             \* the gsap tweens of windForce still running, oldest first
  previousScrollY,
  scrolledAt,         \* the time of the latest scroll event
  scrollVelocity,
  isSimulationActive,
  animationFrameId,   \* 0 stands for null
  resetTimeout,       \* 0 stands for null
  rafPending,         \* ids of the requestAnimationFrame calls not yet run or cancelled
  timers,             \* the setTimeout calls not yet run or cleared
  destroyed,          \* ngOnDestroy has run
  rafCount,           \* requestAnimationFrame calls so far; the next id is rafCount + 1
  timerCount,         \* setTimeout calls so far
  steps,              \* simulate() calls so far
  resets,             \* fullReset() calls so far
  scrolls,            \* scroll events so far
  injected,           \* what the test harness has set on a particle, if anything
  satisfied,          \* satisfy() calls made by the relaxation bench
  geometry,           \* cloth.geometry.attributes.position: the array and its version
  phases,             \* the phases of the latest simulate() call, in order
  now                 \* milliseconds since construction, as the timers see them

vars == <<particles, constraints, windForce, tweens, previousScrollY, scrolledAt,
          scrollVelocity,
          isSimulationActive, animationFrameId, resetTimeout, rafPending, timers,
          destroyed, rafCount, timerCount, steps, resets, scrolls, injected,
          satisfied, geometry, phases, now>>

physVars == <<particles, constraints, windForce>>
frameVars == <<geometry, phases>>
loopVars == <<isSimulationActive, animationFrameId, rafPending, rafCount, steps, resets>>
timerVars == <<resetTimeout, timers, timerCount>>
scrollVars == <<previousScrollY, scrollVelocity, scrolls, scrolledAt>>

NoInjection == [kind |-> "none", i |-> 0, axis |-> "x", val |-> 0]

Init ==
  /\ particles = createParticles
  /\ constraints = createConstraints
  /\ windForce = Zero3
  /\ tweens = <<>>
  /\ previousScrollY = 0
  /\ scrolledAt = 0
  /\ scrollVelocity = 0
  /\ isSimulationActive = FALSE
  /\ animationFrameId = 0
  /\ resetTimeout = 0
  /\ rafPending = {}
  /\ timers = {}
  /\ destroyed = FALSE
  /\ rafCount = 0
  /\ timerCount = 0
  /\ steps = 0
  /\ resets = 0
  /\ scrolls = 0
  /\ injected = NoInjection
  /\ satisfied = 0
  /\ geometry = PlaneGeometry
  /\ phases = <<>>
  /\ now = 0

(* ------------------------------- gsap --------------------------------- *)
(* gsap.to(windForce, {...}): the tween moves the named components from    *)
(* their values at creation to the target along the ease, one stage per    *)
(* display frame.  A tween's duration is cut into TweenStages frames.      *)
(* durations of the two eases, in ms *)
scrollEase == 200
settleEase == 1200

NewTween(props, target, power, duration, wf) ==
  [props |-> props, to |-> target, from |-> wf, power |-> power,
   duration |-> duration, stage |-> 0]

RECURSIVE Pow(_, _)
Pow(b, e) == IF e = 0 THEN 1 ELSE b * Pow(b, e - 1)

(* ease 'power1.out' is 1 - (1 - t)^2, 'power2.out' is 1 - (1 - t)^3 *)
easeOut(q, power, stage) ==
  LET full == Pow(TweenStages, power + 1)
      left == Pow(TweenStages - stage, power + 1)
  IN  IF stage = 0 THEN 0 ELSE MulDiv(q, full - left, full)

renderTween(wf, t) ==
  LET At(axis) ==
        IF axis \in t.props
        THEN t.from[axis] + easeOut(t.to - t.from[axis], t.power, t.stage)
        ELSE wf[axis]
  IN  Vec(At("x"), At("y"), At("z"))

RECURSIVE renderAll(_, _, _)
renderAll(wf, ts, k) ==
  IF k > Len(ts) THEN wf
  ELSE Let(renderTween(wf, ts[k]), LAMBDA w : renderAll(w, ts, k + 1))

advance(ts) == [k \in 1 .. Len(ts) |-> [ts[k] EXCEPT !.stage = @ + 1]]

RECURSIVE running(_)
running(ts) ==
  IF ts = <<>> THEN <<>>
  ELSE IF Head(ts).stage >= TweenStages THEN running(Tail(ts))
  ELSE <<Head(ts)>> \o running(Tail(ts))

(* windForce after gsap's tick of a display frame *)
tickedWind(wf, ts) == renderAll(wf, advance(ts), 1)

(* ------------------------------ animate ------------------------------- *)
(* the fields animate() reads and writes *)
Component ==
  [particles |-> particles, constraints |-> constraints, windForce |-> windForce,
   isSimulationActive |-> isSimulationActive, animationFrameId |-> animationFrameId,
   rafPending |-> rafPending, rafCount |-> rafCount, steps |-> steps,
   resets |-> resets, geometry |-> geometry, phases |-> phases]

(* animateAlways is animate() without its first line.                      *)
(* animate(): nothing when not active; otherwise simulate(), render, and   *)
(* one requestAnimationFrame, whatever simulate() did.  fullReset() clears *)
(* isSimulationActive.                                                     *)
animateAlways(c) ==
  Let(simulate(c.particles, c.constraints, c.windForce), LAMBDA r :
    [c EXCEPT !.particles = r.particles,
              !.constraints = r.constraints,
              !.windForce = r.windForce,
              !.geometry = IF r.exploded THEN r.geometry
                           ELSE updateClothGeometry(@, r.particles),
              !.phases = r.phases,
              !.isSimulationActive = ~r.exploded,
              !.steps = @ + 1,
              !.resets = IF r.exploded THEN @ + 1 ELSE @,
              !.rafCount = @ + 1,
              !.animationFrameId = c.rafCount + 1,
              !.rafPending = @ \cup {c.rafCount + 1}])

animate(c) ==
  IF ~c.isSimulationActive THEN c
  ELSE Let(simulate(c.particles, c.constraints, c.windForce), LAMBDA r :
         [c EXCEPT !.particles = r.particles,
                   !.constraints = r.constraints,
                   !.windForce = r.windForce,
                   !.geometry = IF r.exploded THEN r.geometry
                                ELSE updateClothGeometry(@, r.particles),
                   !.phases = r.phases,
                   !.isSimulationActive = ~r.exploded,
                   !.steps = @ + 1,
                   !.resets = IF r.exploded THEN @ + 1 ELSE @,
                   !.rafCount = @ + 1,
                   !.animationFrameId = c.rafCount + 1,
                   !.rafPending = @ \cup {c.rafCount + 1}])

Assign(c) ==
  /\ particles' = c.particles
  /\ constraints' = c.constraints
  /\ windForce' = c.windForce
  /\ isSimulationActive' = c.isSimulationActive
  /\ animationFrameId' = c.animationFrameId
  /\ rafPending' = c.rafPending
  /\ rafCount' = c.rafCount
  /\ steps' = c.steps
  /\ resets' = c.resets
  /\ geometry' = c.geometry
  /\ phases' = c.phases

(* ---------------------------- handleScroll ---------------------------- *)
ScrollYs == {0, 1, 3, 21}

(* the scroll delta taken as it comes *)
unclampedVelocity(d) == d

clampVelocity(d) ==
  LET lo == IF maxScrollVelocity <= d THEN maxScrollVelocity ELSE d
  IN  IF -maxScrollVelocity >= lo THEN -maxScrollVelocity ELSE lo

(* the threshold test with >= in place of > *)
exceedsThresholdOrEqual(v) == AbsInt(v) >= 1

(* Math.abs(this.scrollVelocity) > 1 *)
exceedsThreshold(v) == AbsInt(v) > 1

(* every delay as short as the shortest *)
delayAllShort(kind) == recheckDelay

(* the re-test delay as long as the stability delay *)
delayLongRecheck(kind) ==
  IF kind = "settle" THEN scrollStopDelay ELSE stabilityDelay

(* the delay setTimeout is given for each of the three callbacks *)
delay(kind) ==
  IF kind = "settle" THEN scrollStopDelay
  ELSE IF kind = "stability" THEN stabilityDelay
  ELSE recheckDelay

(* setTimeout(callback, delay): the timer is due delay after now.  since    *)
(* and chain record where the schedule this timer belongs to began: at the *)
(* scroll event or at the failed stability check of that time.             *)
NewTimer(kind, since, chain) ==
  [id |-> timerCount + 1, kind |-> kind, due |-> now + delay(kind),
   since |-> since, chain |-> chain]

RearmKeepsPending(pending, timer) ==
  /\ timerCount' = timerCount + 1
  /\ resetTimeout' = timer.id
  /\ timers' = pending \cup {timer}

(* clearTimeout(resetTimeout), then resetTimeout = setTimeout(...) *)
Rearm(pending, timer) ==
  /\ timerCount' = timerCount + 1
  /\ resetTimeout' = timer.id
  /\ timers' = {t \in pending : t.id # resetTimeout} \cup {timer}

(* handleScroll() that keeps the sample only when the velocity exceeds the *)
(* threshold                                                              *)
handleScrollKeepsSample(currentScrollY) ==
  LET v == clampVelocity(currentScrollY - previousScrollY)
      windy == exceedsThreshold(v)
      starts == windy /\ ~isSimulationActive
      scaledVelocity == MulQ(v * Scale, 15, 100)
  IN  /\ ~destroyed
      /\ scrolls < MaxScrolls
      /\ timerCount < MaxTimers
      /\ starts => steps < MaxSteps
      /\ scrollVelocity' = v
      /\ tweens' = IF windy
                   THEN Append(tweens, NewTween({"y"}, scaledVelocity, 1, scrollEase, windForce))
                   ELSE tweens
      /\ IF starts
         THEN \E c \in {animate([Component EXCEPT !.isSimulationActive = TRUE])} :
                Assign(c)
         ELSE UNCHANGED <<physVars, frameVars, loopVars>>
      /\ previousScrollY' = IF windy THEN currentScrollY ELSE previousScrollY
      /\ scrolls' = scrolls + 1
      /\ scrolledAt' = now
      /\ Rearm(timers, NewTimer("settle", now, "scroll"))
      /\ UNCHANGED <<destroyed, injected, satisfied, now>>

handleScroll(currentScrollY) ==
  LET v == clampVelocity(currentScrollY - previousScrollY)
      windy == exceedsThreshold(v)
      starts == windy /\ ~isSimulationActive
      scaledVelocity == MulQ(v * Scale, 15, 100)
  IN  /\ ~destroyed
      /\ scrolls < MaxScrolls
      /\ timerCount < MaxTimers
      /\ starts => steps < MaxSteps
      /\ scrollVelocity' = v
      /\ tweens' = IF windy
                   THEN Append(tweens, NewTween({"y"}, scaledVelocity, 1, scrollEase, windForce))
                   ELSE tweens
      /\ IF starts
         THEN \E c \in {animate([Component EXCEPT !.isSimulationActive = TRUE])} :
                Assign(c)
         ELSE UNCHANGED <<physVars, frameVars, loopVars>>
      /\ previousScrollY' = currentScrollY
      /\ scrolls' = scrolls + 1
      /\ scrolledAt' = now
      /\ Rearm(timers, NewTimer("settle", now, "scroll"))
      /\ UNCHANGED <<destroyed, injected, satisfied, now>>

(* ---------------------------- display frame --------------------------- *)
(* One display frame: gsap's tick, then the animation-frame callbacks that *)
(* were pending when the frame began, in the order they were requested.    *)
LeastOf(ids) == CHOOSE id \in ids : \A other \in ids : id <= other

RECURSIVE runCallbacks(_, _)
runCallbacks(c, ids) ==
  IF ids = {} THEN c
  ELSE Let(animate([c EXCEPT !.rafPending = @ \ {LeastOf(ids)}]), LAMBDA d :
         runCallbacks(d, ids \ {LeastOf(ids)}))

displayFrame ==
  /\ tweens # <<>> \/ rafPending # {}
  /\ isSimulationActive => steps + Cardinality(rafPending) <= MaxSteps
  /\ \E c \in {runCallbacks([Component EXCEPT
                                !.windForce = tickedWind(windForce, tweens)],
                            rafPending)} :
       Assign(c)
  /\ tweens' = running(advance(tweens))
  /\ UNCHANGED <<timerVars, scrollVars, destroyed, injected, satisfied, now>>

(* ----------------------------- resetFabric ---------------------------- *)
stabilityCheckStopsAnyway(fired) ==
  /\ isSimulationActive' = FALSE
  /\ IF animationFrameId # 0
     THEN /\ rafPending' = rafPending \ {animationFrameId}
          /\ animationFrameId' = 0
     ELSE UNCHANGED <<rafPending, animationFrameId>>
  /\ timers' = timers \ {fired}
  /\ UNCHANGED <<physVars, frameVars, tweens, resetTimeout, timerCount, rafCount, steps,
                 resets, scrollVars, destroyed, injected, satisfied, now>>

stabilityCheckOnce(fired) ==
  IF isClothStable(particles)
  THEN /\ isSimulationActive' = FALSE
       /\ IF animationFrameId # 0
          THEN /\ rafPending' = rafPending \ {animationFrameId}
               /\ animationFrameId' = 0
          ELSE UNCHANGED <<rafPending, animationFrameId>>
       /\ timers' = timers \ {fired}
       /\ UNCHANGED <<physVars, frameVars, tweens, resetTimeout, timerCount, rafCount, steps,
                      resets, scrollVars, destroyed, injected, satisfied, now>>
  ELSE /\ timers' = timers \ {fired}
       /\ UNCHANGED <<physVars, frameVars, tweens, loopVars, resetTimeout, timerCount,
                      scrollVars, destroyed, injected, satisfied, now>>

stabilityCheckKeepsActive(fired) ==
  IF isClothStable(particles)
  THEN /\ timers' = timers \ {fired}
       /\ UNCHANGED <<physVars, frameVars, tweens, loopVars, resetTimeout, timerCount,
                      scrollVars, destroyed, injected, satisfied, now>>
  ELSE /\ timerCount < MaxTimers
       /\ timerCount' = timerCount + 1
       /\ resetTimeout' = timerCount + 1
       /\ timers' = (timers \ {fired}) \cup {NewTimer("recheck", now, "check")}
       /\ UNCHANGED <<physVars, frameVars, tweens, loopVars, scrollVars, destroyed, injected, satisfied, now>>

resetFabricKeepsWind(fired) ==
  /\ timerCount < MaxTimers
  /\ tweens' = tweens
  /\ Rearm(timers \ {fired}, NewTimer("stability", fired.since, fired.chain))
  /\ UNCHANGED <<physVars, frameVars, loopVars, scrollVars, destroyed, injected, satisfied, now>>

resetFabric(fired) ==
  /\ timerCount < MaxTimers
  /\ tweens' = Append(tweens, NewTween({"x", "y", "z"}, 0, 2, settleEase, windForce))
  /\ Rearm(timers \ {fired}, NewTimer("stability", fired.since, fired.chain))
  /\ UNCHANGED <<physVars, frameVars, loopVars, scrollVars, destroyed, injected, satisfied, now>>

(* the callback of the 1500 ms timer set by resetFabric() *)
stabilityCheck(fired) ==
  IF isClothStable(particles)
  THEN /\ isSimulationActive' = FALSE
       /\ IF animationFrameId # 0
          THEN /\ rafPending' = rafPending \ {animationFrameId}
               /\ animationFrameId' = 0
          ELSE UNCHANGED <<rafPending, animationFrameId>>
       /\ timers' = timers \ {fired}
       /\ UNCHANGED <<physVars, frameVars, tweens, resetTimeout, timerCount, rafCount, steps,
                      resets, scrollVars, destroyed, injected, satisfied, now>>
  ELSE /\ timerCount < MaxTimers
       /\ timerCount' = timerCount + 1
       /\ resetTimeout' = timerCount + 1
       /\ timers' = (timers \ {fired}) \cup {NewTimer("recheck", now, "check")}
       /\ UNCHANGED <<physVars, frameVars, tweens, loopVars, scrollVars, destroyed, injected, satisfied, now>>

(* the callback a timer was set with *)
timerCallback(t) ==
  IF t.kind = "stability" THEN stabilityCheck(t) ELSE resetFabric(t)

(* a pending timer runs its callback; when, is left open *)
timerFires == \E t \in timers : timerCallback(t)

(* a pending timer runs its callback once its delay has passed *)
timerDue == \E t \in timers : now >= t.due /\ timerCallback(t)

(* time passes, while a timer is pending and up to the time it is due: the *)
(* clock is read only through the timers, and a due timer runs before      *)
(* time moves on                                                           *)
tick ==
  /\ timers # {}
  /\ \A t \in timers : now < t.due
  /\ now' = now + TickMs
  /\ UNCHANGED <<physVars, frameVars, tweens, loopVars, timerVars, scrollVars, destroyed, injected, satisfied>>

(* ------------------------- frames on the clock ------------------------ *)
(* the period of the display's frames, in ms: every delay and every ease   *)
(* of the component lasts a whole number of frames                         *)
FrameMs == 100
(* how long the clock is followed *)
MaxClock == 2500

(* gsap's ticker places a tween by the time since its start: after n       *)
(* frames, n * FrameMs of its duration, on the TweenStages grid            *)
elapsedStage(t) ==
  IF t.stage * FrameMs >= t.duration THEN TweenStages
  ELSE (t.stage * FrameMs * TweenStages) \div t.duration

onClock(ts) == [k \in 1 .. Len(ts) |-> [ts[k] EXCEPT !.stage = elapsedStage(ts[k])]]

(* windForce after gsap's tick of a frame on the clock *)
clockedWind(wf, ts) == renderAll(wf, onClock(advance(ts)), 1)

RECURSIVE runningOnClock(_)
runningOnClock(ts) ==
  IF ts = <<>> THEN <<>>
  ELSE IF Head(ts).stage * FrameMs >= Head(ts).duration THEN runningOnClock(Tail(ts))
  ELSE <<Head(ts)>> \o runningOnClock(Tail(ts))

(* one frame period passes and the display runs its frame: gsap's tick,    *)
(* then the pending animate() callbacks.  A due timer runs first.          *)
clockFrame ==
  /\ now < MaxClock
  /\ \A t \in timers : now < t.due
  /\ \E c \in {runCallbacks([Component EXCEPT
                                !.windForce = clockedWind(windForce, tweens)],
                            rafPending)} :
       Assign(c)
  /\ tweens' = runningOnClock(advance(tweens))
  /\ now' = now + FrameMs
  /\ UNCHANGED <<timerVars, scrollVars, destroyed, injected, satisfied>>

(* ---------------------------- onWindowResize -------------------------- *)
(* camera and renderer size only; renders once when not animating *)
onWindowResize == UNCHANGED vars

(* ----------------------------- ngOnDestroy ---------------------------- *)
ngOnDestroy ==
  /\ ~destroyed
  /\ destroyed' = TRUE
  /\ rafPending' = IF animationFrameId # 0
                   THEN rafPending \ {animationFrameId} ELSE rafPending
  /\ timers' = IF resetTimeout # 0
               THEN {t \in timers : t.id # resetTimeout} ELSE timers
  /\ UNCHANGED <<physVars, frameVars, tweens, isSimulationActive, animationFrameId, rafCount,
                 steps, resets, resetTimeout, timerCount, scrollVars, injected, satisfied, now>>

(* ---------------------------- test harness ---------------------------- *)
(* One fault per run, set between two frames of a running animation: one   *)
(* position component of a particle overwritten, or one force added        *)
(* through addForce().  The faulted particle is a pinned corner or the     *)
(* unpinned corner opposite to it.                                         *)
PinnedCorner == index(0, 0)
FreeCorner == index(segmentsW, segmentsH)
FaultValues == {NaN, PInf, 2000 * Scale}
FaultAxes == {"x", "z"}
(* the force that alone moves a particle by 50 in one step *)
SyntheticForce == 50 * TimeStepDen * TimeStepDen * (Scale \div MassDen)
ForceDirections == {Vec(0, 0, SyntheticForce), Vec(SyntheticForce, 0, 0)}

injectPosition ==
  \E i \in {PinnedCorner, FreeCorner}, axis \in FaultAxes, val \in FaultValues :
    /\ injected.kind = "none"
    /\ isSimulationActive
    /\ particles' = [particles EXCEPT ![i].position[axis] = val]
    /\ injected' = [kind |-> "position", i |-> i, axis |-> axis, val |-> val]
    /\ UNCHANGED <<constraints, windForce, frameVars, tweens, loopVars, timerVars, scrollVars,
                   destroyed, satisfied, now>>

injectForce ==
  \E f \in ForceDirections :
    /\ injected.kind = "none"
    /\ isSimulationActive
    /\ particles' = [particles EXCEPT ![FreeCorner] = addForce(@, f)]
    /\ injected' = [kind |-> "force", i |-> FreeCorner, axis |-> "x", val |-> 0]
    /\ UNCHANGED <<constraints, windForce, frameVars, tweens, loopVars, timerVars, scrollVars,
                   destroyed, satisfied, now>>

(* -------------------------- relaxation bench -------------------------- *)
(* The relaxation loop of simulate() on its own: the constraints are       *)
(* satisfied one at a time in list order, pass after pass, with no force   *)
(* and no integration in between.  The bench starts from the layout of     *)
(* createCloth(), either as built or with one fault written into it: a     *)
(* position component overwritten, or the particle below the pinned corner *)
(* moved onto that corner or onto its right neighbour.                     *)
MaxPasses == 30
BelowCorner == index(0, 1)
CornerNeighbours == {PinnedCorner, index(1, 1)}
BenchLayouts ==
  {NoInjection}
    \cup {[kind |-> "position", i |-> i, axis |-> axis, val |-> val] :
            i \in {PinnedCorner, FreeCorner}, axis \in FaultAxes,
            val \in FaultValues \cup {NInf}}
    \cup {[kind |-> "coincide", i |-> BelowCorner, axis |-> "x", val |-> j] :
            j \in CornerNeighbours}

laidOut(inj) ==
  IF inj.kind = "position"
  THEN [createParticles EXCEPT ![inj.i].position[inj.axis] = inj.val]
  ELSE IF inj.kind = "coincide"
  THEN [createParticles EXCEPT ![inj.i].position = createParticles[inj.val].position]
  ELSE createParticles

InitBench ==
  /\ injected \in BenchLayouts
  /\ particles = laidOut(injected)
  /\ constraints = createConstraints
  /\ windForce = Zero3
  /\ tweens = <<>>
  /\ previousScrollY = 0
  /\ scrolledAt = 0
  /\ scrollVelocity = 0
  /\ isSimulationActive = FALSE
  /\ animationFrameId = 0
  /\ resetTimeout = 0
  /\ rafPending = {}
  /\ timers = {}
  /\ destroyed = FALSE
  /\ rafCount = 0
  /\ timerCount = 0
  /\ steps = 0
  /\ resets = 0
  /\ scrolls = 0
  /\ satisfied = 0
  /\ geometry = PlaneGeometry
  /\ phases = <<>>
  /\ now = 0

(* the constraint the loop is at *)
nextConstraint == constraints[(satisfied % Len(constraints)) + 1]

satisfyNext ==
  /\ satisfied < MaxPasses * Len(constraints)
  /\ particles' = satisfy(particles, nextConstraint)
  /\ satisfied' = satisfied + 1
  /\ UNCHANGED <<constraints, windForce, frameVars, tweens, loopVars, timerVars, scrollVars,
                 destroyed, injected, now>>

(* --------------------------- specifications --------------------------- *)
scrollEvent == \E y \in ScrollYs : handleScroll(y)

Next ==
  \/ scrollEvent
  \/ displayFrame
  \/ timerFires
  \/ onWindowResize
  \/ ngOnDestroy

Spec == Init /\ [][Next]_vars

NextFault ==
  \/ scrollEvent
  \/ displayFrame
  \/ timerFires
  \/ onWindowResize
  \/ ngOnDestroy
  \/ injectPosition
  \/ injectForce

(* the component driven by a test harness that may set one fault *)
SpecFault == Init /\ [][NextFault]_vars

NextTimed ==
  \/ scrollEvent
  \/ displayFrame
  \/ timerDue
  \/ tick
  \/ onWindowResize
  \/ ngOnDestroy

(* the component with a clock: a timer runs no earlier than it is due *)
SpecTimed == Init /\ [][NextTimed]_vars

(* a display frame while the mode is Idle: animate() returns at once *)
idleFrame == ~isSimulationActive /\ displayFrame

(* the component with its scheduling: the event loop runs a pending timer's *)
(* callback, and the display runs a frame that was requested               *)
SpecLive == Init /\ [][Next]_vars /\ WF_vars(timerFires) /\ WF_vars(idleFrame)

NextClock ==
  \/ scrollEvent
  \/ clockFrame
  \/ timerDue
  \/ ngOnDestroy

(* the component with frames at a fixed period and timers run when due *)
SpecClock == Init /\ [][NextClock]_vars

(* the relaxation loop alone, from the built layout or a faulted one *)
SpecBench == InitBench /\ [][satisfyNext]_vars

(* ------------------------------ properties ---------------------------- *)
(* what a step of the model did, read off the counters *)
OneStep == steps' = steps + 1
Scrolled == scrolls' = scrolls + 1
Unpinned == {i \in PIdx : ~particles[i].pinned}
AtRest(ps) == \A i \in PIdx : /\ ps[i].position = createParticles[i].position
                              /\ ps[i].oldPosition = createParticles[i].position
(* the wind force simulate() reads in this step: a display frame runs      *)
(* gsap's tick first, handleScroll() calls animate() directly              *)
WindAtStep == IF Scrolled THEN windForce ELSE tickedWind(windForce, tweens)
(* the faulted component still holds the value the harness wrote *)
FaultPresent ==
  /\ injected.kind = "position"
  /\ particles[injected.i].position[injected.axis] = injected.val

(* C1: a step that runs simulate() leaves the position of every pinned     *)
(* particle as it was, unless the step rebuilt the grid, and then the      *)
(* particle is pinned again and at its rest position.                      *)
PinnedImmobility ==
  [][steps' > steps =>
       \A i \in PIdx : particles[i].pinned =>
         IF resets' = resets
         THEN particles'[i].position = particles[i].position
         ELSE /\ particles'[i].pinned
              /\ particles'[i].position = createParticles[i].position]_vars

(* pinned particles at rest after two steps that moved the unpinned ones *)
PinnedImmobilityWitness ==
  /\ steps >= 2
  /\ resets = 0
  /\ windForce.y # 0
  /\ \A i \in Unpinned : particles[i].position # createParticles[i].position
  /\ \A i \in PIdx \ Unpinned : particles[i].position = createParticles[i].position

(* C2, as claimed: with NaN or 2000 in one position component of one       *)
(* particle, pinned or not, a single simulate() call rebuilds the grid at  *)
(* rest and zeroes the wind force.                                         *)
FaultAlwaysRebuilds ==
  [][(OneStep /\ FaultPresent /\ injected.val \in {NaN, 2000 * Scale}) =>
       (AtRest(particles') /\ windForce' = Zero3)]_vars

(* C2, amended: with NaN in one position component of any particle, or     *)
(* 2000 in one position component of a pinned particle, a single           *)
(* simulate() call rebuilds the grid at rest and zeroes the wind force.    *)
DetectedFaultRebuilds ==
  [][(/\ OneStep
      /\ FaultPresent
      /\ \/ injected.val = NaN
         \/ injected.val = 2000 * Scale /\ particles[injected.i].pinned) =>
       (AtRest(particles') /\ windForce' = Zero3 /\ resets' = resets + 1)]_vars

(* the grid rebuilt after a NaN was written into the unpinned corner *)
DetectedFaultRebuildsWitness ==
  /\ injected.kind = "position"
  /\ injected.val = NaN
  /\ injected.i = FreeCorner
  /\ resets = 1
  /\ AtRest(particles)
  /\ windForce = Zero3

(* C3: in a step that runs simulate() once, if after integration and the   *)
(* relaxation iterations some coordinate is NaN, infinite or beyond 1000   *)
(* in magnitude, the particles and constraints are rebuilt at rest, the    *)
(* wind force is zero and the mode is Idle; otherwise the particles are    *)
(* the stepped ones, nothing is rebuilt and the mode stays Active.         *)
ExplosionResetComplete ==
  [][OneStep =>
       \A w \in {WindAtStep} : \A q \in {stepped(particles, constraints, w)} :
           IF \E i \in PIdx, axis \in Axes :
                \/ IsNaN(q[i].position[axis])
                \/ IsInf(q[i].position[axis])
                \/ AbsInt(q[i].position[axis]) > ExplodeLimit * Scale
           THEN /\ AtRest(particles')
                /\ particles' = createParticles
                /\ constraints' = createConstraints
                /\ windForce' = Zero3
                /\ ~isSimulationActive'
                /\ resets' = resets + 1
           ELSE /\ particles' = q
                /\ constraints' = constraints
                /\ windForce' = w
                /\ isSimulationActive'
                /\ resets' = resets]_vars

(* Idle at rest after an infinite coordinate set off the reset *)
ExplosionResetCompleteWitness ==
  /\ injected.kind = "position"
  /\ injected.val = PInf
  /\ resets = 1
  /\ particles = createParticles
  /\ constraints = createConstraints
  /\ windForce = Zero3
  /\ ~isSimulationActive
  /\ tweens # <<>>

(* C4, as claimed: at most one animation-frame request is outstanding.     *)
AtMostOneRequest == Cardinality(rafPending) <= 1

(* C5, as claimed: once ngOnDestroy() has run, no animation-frame request  *)
(* and no timer is pending.                                                *)
TeardownIsFinal == destroyed => (rafPending = {} /\ timers = {})

(* C6: the callback of a stability timer sets the mode to Idle and cancels *)
(* the pending animation-frame request exactly when every unpinned         *)
(* particle has |position - oldPosition| <= 0.01 and a z displacement      *)
(* <= 0.05; otherwise the mode and the request stay and a later check is   *)
(* scheduled.  Pinned particles are not looked at.                         *)
StabilityTransition ==
  [][\A t \in timers :
       (/\ t.kind = "stability"
        /\ t \notin timers'
        /\ scrolls' = scrolls
        /\ destroyed' = destroyed) =>
         LET settled ==
               \A i \in Unpinned :
                 /\ Length(VSub(particles[i].position, particles[i].oldPosition))
                      <= Scale \div 100
                 /\ AbsInt(particles[i].position.z - particles[i].oldPosition.z)
                      <= (5 * Scale) \div 100
         IN  IF settled
             THEN /\ ~isSimulationActive'
                  /\ rafPending' = {}
                  /\ animationFrameId' = 0
                  /\ timers' = {}
             ELSE /\ isSimulationActive' = isSimulationActive
                  /\ rafPending' = rafPending
                  /\ animationFrameId' = animationFrameId
                  /\ \E n \in timers' : n.kind = "recheck"]_vars

(* the loop stopped by a stability check after the cloth had moved *)
StabilityTransitionWitness ==
  /\ ~isSimulationActive
  /\ steps > 0
  /\ resets = 0
  /\ animationFrameId = 0
  /\ rafPending = {}
  /\ ~AtRest(particles)
  /\ ~destroyed

(* C7: the mode goes from Idle to Active only in a scroll event whose      *)
(* clamped velocity exceeds 1 in magnitude; a scroll event whose clamped   *)
(* velocity is at most 1 in magnitude leaves the mode, the animation-frame *)
(* requests, the step count, the tweens and the wind force as they were.   *)
ActivationThreshold ==
  [][/\ (~isSimulationActive /\ isSimulationActive') =>
          (Scrolled /\ AbsInt(scrollVelocity') > 1)
     /\ (Scrolled /\ AbsInt(scrollVelocity') <= 1) =>
          /\ isSimulationActive' = isSimulationActive
          /\ rafPending' = rafPending
          /\ rafCount' = rafCount
          /\ steps' = steps
          /\ tweens' = tweens
          /\ windForce' = windForce]_vars

(* one scroll event of velocity exactly 1 received while Idle, and Idle still *)
ActivationThresholdWitness ==
  /\ scrolls = 1
  /\ scrollVelocity = 1
  /\ ~isSimulationActive
  /\ steps = 0
  /\ tweens = <<>>

(* C8: a scroll event of delta d whose clamped value c = clamp(d, -15, 15) *)
(* exceeds 1 in magnitude starts a tween of windForce.y to 0.15 * c, which *)
(* lies in [-2.25, 2.25]; d = 20 gives 2.25 and d = -20 gives -2.25.       *)
ScrollToWind ==
  [][Scrolled =>
       LET d == previousScrollY' - previousScrollY
           c == IF d > 15 THEN 15 ELSE IF d < -15 THEN -15 ELSE d
       IN  AbsInt(c) > 1 =>
             /\ Len(tweens') = Len(tweens) + 1
             /\ LET t == tweens'[Len(tweens')]
                IN  /\ t.props = {"y"}
                    /\ 100 * t.to = 15 * c * Scale
                    /\ t.to >= -((225 * Scale) \div 100)
                    /\ t.to <= (225 * Scale) \div 100
                    /\ d = 20 => t.to = (225 * Scale) \div 100
                    /\ d = -20 => t.to = -((225 * Scale) \div 100)]_vars

(* a scroll from 1 to 21 has set the wind target 2.25 *)
ScrollToWindWitness ==
  /\ scrolls = 2
  /\ previousScrollY = 21
  /\ scrollVelocity = maxScrollVelocity
  /\ steps = 1
  /\ Len(tweens) = 1
  /\ tweens[1].to = (225 * Scale) \div 100

IdleMeansNoPhysics ==
  [][(~isSimulationActive /\ ~(Scrolled /\ AbsInt(scrollVelocity') > 1)) =>
       /\ steps' = steps
       /\ particles' = particles
       /\ rafCount' = rafCount
       /\ rafPending' \subseteq rafPending
       /\ ~isSimulationActive']_vars

(* an animation-frame callback has run while Idle: the request left by the *)
(* explosion reset is gone and nothing replaced it                         *)
IdleMeansNoPhysicsWitness ==
  /\ ~isSimulationActive
  /\ ~destroyed
  /\ resets = 1
  /\ rafPending = {}
  /\ animationFrameId # 0
  /\ rafCount = steps


(* the timers whose callback ran in this step: a timer leaves the pending  *)
(* set by running, by a scroll event or by teardown                        *)
Ran(kind) ==
  {t \in timers : /\ t.kind = kind
                  /\ t \notin timers'
                  /\ scrolls' = scrolls
                  /\ destroyed' = destroyed}

(* C11: the easing of the wind force to zero that follows a scroll event   *)
(* of time t begins no earlier than t + 500 ms, the stability check that   *)
(* follows it runs no earlier than t + 500 ms + 1500 ms, and after any     *)
(* scroll event the only pending timer is the one that event set, due      *)
(* 500 ms later.                                                           *)
SettleTiming ==
  [][/\ \A t \in Ran("settle") :
          /\ now >= t.since + 500
          /\ Len(tweens') = Len(tweens) + 1
          /\ tweens'[Len(tweens')].props = {"x", "y", "z"}
     /\ \A t \in Ran("stability") :
          t.chain = "scroll" => now >= t.since + 500 + 1500
     /\ Scrolled =>
          /\ Cardinality(timers') = 1
          /\ \A t \in timers' :
               t.kind = "settle" /\ t.since = now /\ t.due = now + 500]_vars

(* the stability check of a single scroll event has run, 2000 ms after it, *)
(* and stopped the loop                                                    *)
SettleTimingWitness ==
  /\ scrolls = 1
  /\ now = 2000
  /\ timerCount = 2
  /\ timers = {}
  /\ steps > 0
  /\ ~isSimulationActive
  /\ ~destroyed

(* C12, as claimed: the stability check that follows a failed one runs     *)
(* 500 ms after it.                                                        *)
RetestAfterHalfSecond ==
  [][\A t \in Ran("stability") :
       t.chain = "check" => now = t.since + 500]_vars

(* C12, amended: the stability check that follows a failed one runs        *)
(* 500 ms + 1500 ms after it, timers running when due: the 500 ms timer    *)
(* runs resetFabric(), which eases the wind again and sets the 1500 ms     *)
(* timer of the check.                                                     *)
RetestAfterTwoSeconds ==
  [][/\ \A t \in Ran("stability") :
          t.chain = "check" => now = t.since + 500 + 1500
     /\ \A t \in Ran("recheck") :
          /\ now = t.since + 500
          /\ Len(tweens') = Len(tweens) + 1
          /\ \E n \in timers' : n.kind = "stability" /\ n.due = now + 1500]_vars

(* a failed check at 2000 ms, the next one at 4000 ms, which stopped the loop *)
RetestAfterTwoSecondsWitness ==
  /\ scrolls = 1
  /\ now = 4000
  /\ timerCount = 4
  /\ timers = {}
  /\ ~isSimulationActive
  /\ ~destroyed

(* C13: a step in which fullReset() ran leaves the particles and the       *)
(* constraints that fullReset() builds from the state before the step,     *)
(* whatever that state holds; a second fullReset() applied to the result   *)
(* changes nothing; and positions, previous positions, pinned flags and    *)
(* constraint endpoints are those of the initial build.                    *)
RebuildIdempotence ==
  [][resets' > resets =>
       \A once \in {fullReset(particles, constraints)} :
         \A twice \in {fullReset(once.particles, once.constraints)} :
           /\ particles' = once.particles
           /\ constraints' = once.constraints
           /\ twice = once
           /\ \A i \in PIdx :
                /\ particles'[i].position = createParticles[i].position
                /\ particles'[i].oldPosition = createParticles[i].position
                /\ particles'[i].pinned = createParticles[i].pinned
           /\ Len(constraints') = Len(createConstraints)
           /\ \A k \in 1 .. Len(constraints') :
                /\ constraints'[k].p1 = createConstraints[k].p1
                /\ constraints'[k].p2 = createConstraints[k].p2]_vars

(* the initial build again, after a step that began with 2000 in a         *)
(* coordinate of the pinned corner                                         *)
RebuildIdempotenceWitness ==
  /\ resets = 1
  /\ injected.kind = "position"
  /\ injected.val = 2000 * Scale
  /\ injected.i = PinnedCorner
  /\ particles = createParticles
  /\ constraints = createConstraints

(* distance between the endpoints of a constraint, as satisfy() measures it *)
currentDist(ps, c) == Length(VSub(ps[c.p2].position, ps[c.p1].position))
Epsilon == Scale \div 1000
FlatStart == injected.kind = "none"

(* C14, as claimed: from the flat layout, after many relaxation passes the *)
(* distance of every constraint is within epsilon of restDistance.         *)
RestLengthConvergence ==
  (FlatStart /\ satisfied = MaxPasses * Len(constraints)) =>
    \A k \in 1 .. Len(constraints) :
      AbsInt(currentDist(particles, constraints[k]) - restDistance) <= Epsilon

(* C14, amended: from the flat layout, a satisfy() leaves a constraint     *)
(* between two pinned particles at the spacing it was built with, which is *)
(* not restDistance; it brings a constraint with one pinned endpoint to    *)
(* within epsilon of halfway between its distance and restDistance, and a  *)
(* constraint with no pinned endpoint to within epsilon of restDistance.   *)
RelaxTowardRest ==
  [][(FlatStart /\ satisfied' = satisfied + 1) =>
       \A c \in {nextConstraint} :
         \A d \in {currentDist(particles, c)}, e \in {currentDist(particles', c)} :
           IF particles[c.p1].pinned /\ particles[c.p2].pinned
           THEN /\ e = d
                /\ d = clothWidth \div segmentsW
                /\ AbsInt(d - restDistance) > Epsilon
           ELSE IF particles[c.p1].pinned \/ particles[c.p2].pinned
           THEN AbsInt(2 * e - (d + restDistance)) <= 2 * Epsilon
           ELSE AbsInt(e - restDistance) <= Epsilon]_vars

(* all passes done from the flat layout: the unpinned particles have moved *)
(* and the top-row constraint is as long as it was built                   *)
RelaxTowardRestWitness ==
  /\ FlatStart
  /\ satisfied = MaxPasses * Len(constraints)
  /\ \A i \in Unpinned : particles[i].position # createParticles[i].position
  /\ currentDist(particles, constraints[1]) = clothWidth \div segmentsW

(* C15: in every state there are (segmentsW + 1) * (segmentsH + 1)         *)
(* particles, the one at index u + v * (segmentsW + 1) is pinned exactly   *)
(* when v = 0, and it is the one built for (u, v): before the first step   *)
(* and after every rebuild it is at clothFunction(u, v), and a pinned one  *)
(* that no test harness has written to is there in every state.            *)
GridInvariant ==
  /\ [](/\ DOMAIN particles = 1 .. (segmentsW + 1) * (segmentsH + 1)
        /\ \A u \in 0 .. segmentsW, v \in 0 .. segmentsH :
             \A p \in {particles[u + v * (segmentsW + 1) + 1]} :
               /\ p.pinned <=> (v = 0)
               /\ steps = 0 => p.position = clothFunction(u, v)
               /\ (v = 0 /\ injected.i # u + v * (segmentsW + 1) + 1) =>
                    p.position = clothFunction(u, v))
  /\ [][resets' > resets =>
         \A u \in 0 .. segmentsW, v \in 0 .. segmentsH :
           \A p \in {particles'[u + v * (segmentsW + 1) + 1]} :
             /\ p.position = clothFunction(u, v)
             /\ p.oldPosition = clothFunction(u, v)]_vars

(* the grid stepped again after an explosion reset *)
GridInvariantWitness ==
  /\ resets = 1
  /\ isSimulationActive
  /\ steps >= 3
  /\ \E i \in Unpinned : particles[i].position # createParticles[i].position

(* the grid-adjacent pairs, first the particle at (u, v), then its right   *)
(* or lower neighbour                                                      *)
HorizontalPairs ==
  {<<u + v * (segmentsW + 1) + 1, (u + 1) + v * (segmentsW + 1) + 1>> :
     u \in 0 .. segmentsW - 1, v \in 0 .. segmentsH}
VerticalPairs ==
  {<<u + v * (segmentsW + 1) + 1, u + (v + 1) * (segmentsW + 1) + 1>> :
     u \in 0 .. segmentsW, v \in 0 .. segmentsH - 1}
Endpoints(c) == <<c.p1, c.p2>>

(* C16: in every state, hence after every build, the constraint list has   *)
(* segmentsW * (segmentsH + 1) + segmentsH * (segmentsW + 1) entries, one  *)
(* for each horizontally and each vertically adjacent pair of the current  *)
(* particle array and no other, no pair twice in either order, and every   *)
(* entry has restDistance = 0.9 * clothWidth / segmentsW.                  *)
StructuralLinks ==
  /\ Len(constraints) = segmentsW * (segmentsH + 1) + segmentsH * (segmentsW + 1)
  /\ {Endpoints(constraints[k]) : k \in 1 .. Len(constraints)}
       = HorizontalPairs \cup VerticalPairs
  /\ \A j, k \in 1 .. Len(constraints) :
       j # k => {constraints[j].p1, constraints[j].p2}
                  # {constraints[k].p1, constraints[k].p2}
  /\ \A k \in 1 .. Len(constraints) :
       /\ constraints[k].p1 \in DOMAIN particles
       /\ constraints[k].p2 \in DOMAIN particles
       /\ constraints[k].p1 # constraints[k].p2
       /\ constraints[k].distance = (9 * clothWidth) \div (10 * segmentsW)

(* the links after a rebuild set off by NaN in the pinned corner *)
StructuralLinksWitness ==
  /\ resets = 1
  /\ injected.kind = "position"
  /\ injected.val = NaN
  /\ injected.i = PinnedCorner
  /\ ~isSimulationActive
  /\ Len(constraints) = segmentsW * (segmentsH + 1) + segmentsH * (segmentsW + 1)

(* the three slots of particle i in the position array *)
Slot(g, i, axis) ==
  g.array[3 * (i - 1) + (IF axis = "x" THEN 1 ELSE IF axis = "y" THEN 2 ELSE 3)]

(* C18, as claimed: after a simulate() call that detects no explosion the  *)
(* slots 3i, 3i + 1, 3i + 2 of the vertex buffer equal the x, y, z of      *)
(* particle i.                                                             *)
BufferEqualsParticles ==
  [][(OneStep /\ resets' = resets) =>
       \A i \in PIdx, axis \in Axes :
         SameNumber(Slot(geometry', i, axis), particles'[i].position[axis])]_vars

(* C18, amended: after a simulate() call that detects no explosion the     *)
(* slots of particle i hold its x, y, z rounded to float32 and the         *)
(* attribute's version has gone up by one; a call that detects an          *)
(* explosion leaves the untouched buffer of a new plane geometry; and no   *)
(* slot ever holds NaN or a magnitude above 1000.                          *)
BufferHoldsRoundedParticles ==
  /\ [][OneStep =>
          IF resets' = resets
          THEN /\ \A i \in PIdx, axis \in Axes :
                    Slot(geometry', i, axis) = fround(particles'[i].position[axis])
               /\ geometry'.version = geometry.version + 1
          ELSE /\ geometry'.version = 0
               /\ \A i \in PIdx :
                    /\ Slot(geometry', i, "x") = fround(createParticles[i].position.x)
                    /\ Slot(geometry', i, "y") = fround(-createParticles[i].position.y)
                    /\ Slot(geometry', i, "z") = fround(0)]_vars
  /\ [](\A j \in DOMAIN geometry.array :
          /\ ~IsNaN(geometry.array[j].m)
          /\ ~Exceeds(geometry.array[j], ExplodeLimit))

(* the buffer written twice, and a z slot that is the float32 next to the  *)
(* particle's z, not z itself                                              *)
BufferHoldsRoundedParticlesWitness ==
  /\ geometry.version >= 2
  /\ \E i \in Unpinned :
       /\ particles[i].position.z # 0
       /\ Slot(geometry, i, "z") = fround(particles[i].position.z)
       /\ ~SameNumber(Slot(geometry, i, "z"), particles[i].position.z)

(* what one phase of simulate() does to the particles *)
perform(ps, cs, wf, e) ==
  IF e.op = "addForce" THEN [ps EXCEPT ![e.i] = applyForces(@, wf)]
  ELSE IF e.op = "integrate"
  THEN Let(committedPosition(ps[e.i].position, verletPosition(ps[e.i])),
           LAMBDA committed :
             [ps EXCEPT ![e.i].oldPosition = ps[e.i].position,
                        ![e.i].position = committed,
                        ![e.i].acceleration = Zero3])
  ELSE IF e.op = "satisfy" THEN satisfy(ps, cs[e.i])
  ELSE ps
RECURSIVE performFrom(_, _, _, _, _)
performFrom(ps, cs, wf, es, k) ==
  IF k > Len(es) THEN ps
  ELSE Let(perform(ps, cs, wf, es[k]), LAMBDA q : performFrom(q, cs, wf, es, k + 1))
Where(es, op) == {k \in 1 .. Len(es) : es[k].op = op}

(* C17: in a step that runs simulate() once, the phases of the call are,   *)
(* in this order: for each unpinned particle its forces before its         *)
(* integration, every integration before the first satisfy(), the          *)
(* numIterations passes over all constraints before the one explosion      *)
(* check, and updateClothGeometry() last and only when the check found no  *)
(* explosion; and going through the phases in that order gives the         *)
(* particles the explosion check sees.                                     *)
PhaseOrdering ==
  [][OneStep =>
       \A es \in {phases'} :
         /\ \A i \in Unpinned :
              \E a \in Where(es, "addForce"), b \in Where(es, "integrate") :
                /\ es[a].i = i
                /\ es[b].i = i
                /\ a < b
                /\ \A k \in Where(es, "addForce") \cup Where(es, "integrate") :
                     es[k].i = i => k \in {a, b}
         /\ \A k \in Where(es, "addForce") \cup Where(es, "integrate") :
              es[k].i \in Unpinned
         /\ \A b \in Where(es, "integrate"), c \in Where(es, "satisfy") : b < c
         /\ Cardinality(Where(es, "satisfy")) = 5 * Len(constraints)
         /\ \A n \in 1 .. 5, j \in 1 .. Len(constraints) :
              \E c \in Where(es, "satisfy") : es[c].n = n /\ es[c].i = j
         /\ \A c, d \in Where(es, "satisfy") :
              (es[c].n < es[d].n \/ (es[c].n = es[d].n /\ es[c].i < es[d].i)) => c < d
         /\ Cardinality(Where(es, "checkSimulationExploded")) = 1
         /\ \A c \in Where(es, "satisfy"), x \in Where(es, "checkSimulationExploded") :
              c < x
         /\ \A x \in Where(es, "checkSimulationExploded") :
              /\ x = Len(es) - 1
              /\ es[Len(es)].op = IF resets' = resets THEN "updateClothGeometry"
                                   ELSE "fullReset"
         /\ Where(es, "updateClothGeometry") \subseteq {Len(es)}
         /\ (resets' = resets) <=> (geometry'.version = geometry.version + 1)
         /\ \A w \in {WindAtStep} :
              \A q \in {performFrom(particles, constraints, w, es, 1)} :
                /\ q = stepped(particles, constraints, w)
                /\ resets' = resets => particles' = q
                /\ (resets' = resets) <=> ~checkSimulationExploded(q)]_vars

(* two steps done, the latest one ending in updateClothGeometry() *)
PhaseOrderingWitness ==
  /\ steps >= 2
  /\ resets = 0
  /\ phases # <<>>
  /\ phases[Len(phases)].op = "updateClothGeometry"
  /\ phases[Len(phases) - 1].op = "checkSimulationExploded"
  /\ geometry.version = steps

(* no NaN and no infinity in the particle *)
FiniteState(p) ==
  \A u \in {p.position, p.oldPosition, p.acceleration} : ~VHasNaN(u) /\ ~VHasInf(u)
(* the displacement of the Verlet formula, before any cut *)
unclampedDisplacement(p, wf) ==
  Let(applyForces(p, wf), LAMBDA f : VSub(verletPosition(f), f.position))

(* C19: for an unpinned particle with finite state, the position the       *)
(* integration commits is within MAX_DISPLACEMENT of the position before   *)
(* the step; when the Verlet displacement is longer than MAX_DISPLACEMENT  *)
(* the committed displacement is that displacement scaled to length        *)
(* MAX_DISPLACEMENT (to the rounding of the arithmetic), otherwise it is   *)
(* the Verlet displacement; and oldPosition is the position before the     *)
(* step.                                                                   *)
IntegrationClamp ==
  \A i \in Unpinned : FiniteState(particles[i]) =>
    \A u \in {unclampedDisplacement(particles[i], windForce)} :
      \A c \in {integrate(particles[i], windForce)} :
        \A d \in {VSub(c.position, particles[i].position)} :
          \A len \in {Length(u)}, dlen \in {Length(d)} :
            /\ dlen <= MAX_DISPLACEMENT * Scale
            /\ IF len > MAX_DISPLACEMENT * Scale
               THEN /\ MAX_DISPLACEMENT * Scale - dlen <= Epsilon
                    /\ \A axis \in Axes :
                         /\ Sign(d[axis]) \in {0, Sign(u[axis])}
                         /\ AbsInt(d[axis] - MulDiv(u[axis], MAX_DISPLACEMENT * Scale, len))
                              <= 1
               ELSE d = u
            /\ c.oldPosition = particles[i].position

(* 2000 written into x of the unpinned corner, whose Verlet displacement   *)
(* is then far longer than MAX_DISPLACEMENT                                *)
IntegrationClampWitness ==
  /\ FaultPresent
  /\ injected.val = 2000 * Scale
  /\ injected.i = FreeCorner
  /\ FiniteState(particles[FreeCorner])
  /\ Length(unclampedDisplacement(particles[FreeCorner], windForce))
       > 100 * MAX_DISPLACEMENT * Scale

(* C20: a satisfy() of a constraint whose endpoints are at distance 0, NaN *)
(* or infinity leaves the positions of both endpoints as they were.        *)
DegenerateIsNoOp ==
  [][satisfied' = satisfied + 1 =>
       \A c \in {nextConstraint} : \A d \in {currentDist(particles, c)} :
         (d = 0 \/ IsNaN(d) \/ IsInf(d)) =>
           /\ particles'[c.p1].position = particles[c.p1].position
           /\ particles'[c.p2].position = particles[c.p2].position]_vars

(* C21: a satisfy() of a constraint at a nonzero finite distance leaves a  *)
(* pinned endpoint where it is and moves an unpinned one along the line    *)
(* between the endpoints, toward the other when the constraint is longer   *)
(* than restDistance, by half of the excess; with no pinned endpoint the   *)
(* distance afterwards is restDistance and the midpoint is where it was,   *)
(* with one pinned endpoint the distance afterwards is the mean of the     *)
(* distance before and restDistance (all to the rounding of the            *)
(* arithmetic).                                                            *)
HalfCorrection ==
  [][satisfied' = satisfied + 1 =>
       \A c \in {nextConstraint} : \A d \in {currentDist(particles, c)} :
         (d # 0 /\ ~IsNaN(d) /\ ~IsInf(d)) =>
           \A e \in {currentDist(particles', c)} :
             \A p1p2 \in {VSub(particles[c.p2].position, particles[c.p1].position)} :
               /\ \A end \in {c.p1, c.p2} :
                    \A move \in {VSub(particles'[end].position,
                                       particles[end].position)} :
                      IF particles[end].pinned THEN move = Zero3
                      ELSE /\ AbsInt(2 * Length(move) - AbsInt(d - c.distance))
                                <= 2 * Epsilon
                           /\ \A axis \in Axes :
                                Sign(move[axis]) \in
                                  {0, (IF end = c.p1 THEN 1 ELSE -1)
                                        * Sign(d - c.distance) * Sign(p1p2[axis])}
               /\ (~particles[c.p1].pinned /\ ~particles[c.p2].pinned) =>
                    /\ AbsInt(e - c.distance) <= Epsilon
                    /\ VAdd(particles'[c.p1].position, particles'[c.p2].position)
                         = VAdd(particles[c.p1].position, particles[c.p2].position)
               /\ (particles[c.p1].pinned # particles[c.p2].pinned) =>
                    AbsInt(2 * e - (d + c.distance)) <= 2 * Epsilon]_vars

(* the bottom link, 2000 long after the fault, brought to restDistance by  *)
(* its first satisfy()                                                     *)
HalfCorrectionWitness ==
  /\ injected.kind = "position"
  /\ injected.val = 2000 * Scale
  /\ injected.i = FreeCorner
  /\ satisfied = segmentsW * (2 * segmentsH + 1)
  /\ AbsInt(currentDist(particles, constraints[satisfied]) - restDistance) <= Epsilon
  /\ ~particles[constraints[satisfied].p1].pinned

(* the satisfy() phases of a simulate() call, as positions in its phases *)
Satisfied(es) == Where(es, "satisfy")
IsHorizontal(c) == Endpoints(c) \in HorizontalPairs
IsVertical(c) == Endpoints(c) \in VerticalPairs

(* C22, as claimed: in each relaxation iteration of simulate() no vertical *)
(* constraint is satisfied before a horizontal one.                        *)
HorizontalBeforeVertical ==
  [][OneStep =>
       \A es \in {phases'} : \A a, b \in Satisfied(es) :
         (/\ es[a].n = es[b].n
          /\ IsVertical(constraints[es[a].i])
          /\ IsHorizontal(constraints[es[b].i])) => b < a]_vars

(* C22, amended: in each relaxation iteration of simulate() the            *)
(* constraints are satisfied in construction order, which is: for each     *)
(* cell (u, v) with u < segmentsW and v < segmentsH, row by row, its link  *)
(* to the right and then its link down; then the links to the right along  *)
(* the last row; then the links down along the last column.                *)
RelaxationOrder ==
  [][OneStep =>
       \A es \in {phases'} :
         /\ \A a, b \in Satisfied(es) :
              a < b <=> \/ es[a].n < es[b].n
                        \/ es[a].n = es[b].n /\ es[a].i < es[b].i
         /\ \A a \in Satisfied(es) :
              \A k \in {es[a].i} : \A ends \in {Endpoints(constraints[k])} :
                \A w \in {segmentsW + 1} : \A cells \in {2 * segmentsW * segmentsH} :
                  IF k <= cells
                  THEN \A u \in {((k - 1) \div 2) % segmentsW} :
                         \A v \in {((k - 1) \div 2) \div segmentsW} :
                           ends = IF k % 2 = 1
                                  THEN <<u + v * w + 1, (u + 1) + v * w + 1>>
                                  ELSE <<u + v * w + 1, u + (v + 1) * w + 1>>
                  ELSE IF k <= cells + segmentsW
                  THEN \A u \in {k - cells - 1} :
                         ends = <<u + segmentsH * w + 1, (u + 1) + segmentsH * w + 1>>
                  ELSE \A v \in {k - cells - segmentsW - 1} :
                         ends = <<segmentsW + v * w + 1, segmentsW + (v + 1) * w + 1>>]_vars

(* a simulate() call that satisfied a link down before a link to the right *)
(* in its first iteration                                                  *)
RelaxationOrderWitness ==
  /\ steps >= 1
  /\ resets = 0
  /\ \E a, b \in Satisfied(phases) :
       /\ a < b
       /\ phases[a].n = 1
       /\ phases[b].n = 1
       /\ IsVertical(constraints[phases[a].i])
       /\ IsHorizontal(constraints[phases[b].i])

(* C23: a scroll notification at scrollY = y leaves scrollVelocity =       *)
(* clamp(y - previousScrollY, -15, 15) with the previousScrollY of before, *)
(* eases the wind toward 0.15 times that velocity when it exceeds 1 in     *)
(* magnitude, and leaves previousScrollY = y whether or not it does.       *)
VelocityFromConsecutiveSamples ==
  [][Scrolled =>
       \E y \in ScrollYs :
         \A d \in {y - previousScrollY} :
           /\ previousScrollY' = y
           /\ scrollVelocity' = IF d > maxScrollVelocity THEN maxScrollVelocity
                                ELSE IF d < -maxScrollVelocity THEN -maxScrollVelocity
                                ELSE d
           /\ scrollVelocity' \in -15 .. 15
           /\ IF AbsInt(scrollVelocity') > 1
              THEN /\ Len(tweens') = Len(tweens) + 1
                   /\ 100 * tweens'[Len(tweens')].to = 15 * scrollVelocity' * Scale
              ELSE tweens' = tweens]_vars

(* two notifications under the threshold, 0 to 1 and back: the second      *)
(* velocity is measured from the first sample                              *)
VelocityFromConsecutiveSamplesWitness ==
  /\ scrolls = 2
  /\ previousScrollY = 0
  /\ scrollVelocity = -1
  /\ ~isSimulationActive
  /\ steps = 0

(* ---- C24: the wind decays after scrolling stops ---- *)
settleDue == scrolledAt + scrollStopDelay
decayedBy == settleDue + settleEase

(* the wind is zero and no running ease can move it *)
Calm ==
  /\ windForce = Zero3
  /\ \A k \in 1 .. Len(tweens) : tweens[k].to = 0 /\ tweens[k].from = Zero3

(* the ease to zero that resetFabric() started at settleDue is running *)
EasingSince(at) ==
  \E k \in 1 .. Len(tweens) :
    /\ tweens[k].props = {"x", "y", "z"}
    /\ tweens[k].to = 0
    /\ tweens[k].duration = settleEase
    /\ tweens[k].stage * FrameMs = now - at

WindyScroll == Scrolled /\ exceedsThreshold(scrollVelocity')

DecayOnTime ==
  scrolls > 0 =>
    /\ (settleDue < now /\ now < decayedBy) => EasingSince(settleDue)
    /\ now >= decayedBy => Calm

(* C24 as stated: with the latest scroll event at time t, the ease to zero *)
(* runs from t + 0.5 s, the wind force is (0,0,0) from t + 0.5 s + 1.2 s   *)
(* on, and it stays zero until a scroll event with |velocity| > 1.         *)
WindDecays == DecayOnTime

(* C24 amended: the same, as long as the component is not torn down: with  *)
(* the latest scroll event at time t, the ease to zero runs from t + 0.5 s,*)
(* the wind force is (0,0,0) from t + 0.5 s + 1.2 s on, and a zero wind    *)
(* that no ease can move stays so until a scroll event with |velocity| > 1.*)
WindDecaysUnlessTornDown ==
  /\ [](~destroyed => DecayOnTime)
  /\ [][Calm /\ ~WindyScroll => Calm']_vars

(* 1.7 s after a scroll event that raised the wind, with the component     *)
(* still polling                                                           *)
WindDecaysUnlessTornDownWitness ==
  /\ ~destroyed
  /\ scrolls > 0
  /\ exceedsThreshold(scrollVelocity)
  /\ now >= decayedBy
  /\ isSimulationActive
  /\ timers # {}
  /\ windForce = Zero3

(* ---- C25: settling is eventually noticed ---- *)
Stable == isClothStable(particles)
Stopped == ~isSimulationActive /\ rafPending = {}

(* a pending timer gets to run: the cap on the timers ever set is not hit *)
TimersRun ==
  \/ timers = {}
  \/ timerCount < MaxTimers
  \/ \E t \in timers : t.kind = "stability" /\ Stable

(* C25: without teardown, once the scroll events have ended and the cloth  *)
(* passes isClothStable() from some point on, the mode becomes Idle and no *)
(* animation frame request stays pending.                                  *)
SettlingNoticed ==
  []<>(Stopped \/ destroyed \/ ~TimersRun \/ ~Stable)

(* Idle through a stability check after a simulated scroll: the timer is   *)
(* gone and no request is pending                                          *)
SettlingNoticedWitness ==
  /\ ~destroyed
  /\ scrolls > 0
  /\ steps > 0
  /\ resets = 0
  /\ Stable
  /\ Stopped
  /\ timers = {}

(* ---- C26: polling is never lost ---- *)
TimerKinds == {"settle", "stability", "recheck"}

(* C26: whenever the mode is Active and the component is not torn down,    *)
(* exactly one delayed timer is pending: the scroll-stop delay, the        *)
(* stability delay or the re-check delay.                                  *)
PollingNeverLost ==
  (isSimulationActive /\ ~destroyed) =>
    \E t \in timers : timers = {t} /\ t.kind \in TimerKinds

(* Active after a stability check that found the cloth moving: the         *)
(* re-check delay is the one timer pending                                 *)
PollingNeverLostWitness ==
  /\ isSimulationActive
  /\ ~destroyed
  /\ \E t \in timers : timers = {t} /\ t.kind = "recheck"

(* ---- C27: no overlapping timers ---- *)
(* C27: at most one delayed timer is pending at any time and resetTimeout  *)
(* refers to it; a scroll event leaves none of the timers that were        *)
(* pending before it.                                                      *)
NoOverlappingTimers ==
  /\ [](/\ Cardinality(timers) <= 1
        /\ \A t \in timers : t.id = resetTimeout)
  /\ [][Scrolled => /\ timers \cap timers' = {}
                    /\ \E t \in timers' : timers' = {t} /\ t.kind = "settle"]_vars

(* a second scroll event arrived while the stability timer of the first    *)
(* was pending: only its own scroll-stop timer is left                     *)
NoOverlappingTimersWitness ==
  /\ scrolls = 2
  /\ timerCount = 3
  /\ \E t \in timers : timers = {t} /\ t.kind = "settle" /\ t.id = 3
  /\ resetTimeout = 3

(* ---- C28: the wind stays zero after an explosion reset ---- *)
(* between a fullReset() and the next scroll event with |velocity| > 1:    *)
(* the rebuilt geometry is untouched, the first simulate() after that      *)
(* scroll event writes it                                                  *)
SinceReset == resets > 0 /\ geometry = PlaneGeometry

(* C28: from a fullReset() until the next scroll event with |velocity| > 1 *)
(* the wind force is (0,0,0), whatever eases were running at the reset and *)
(* whatever timer fires after it.                                          *)
WindStaysZeroAfterReset == SinceReset => windForce = Zero3

(* ---- C29: Idle implies stable ---- *)
(* a <= b on doubles: false as soon as one side is NaN *)
Le(a, b) == ~IsNaN(a) /\ ~IsNaN(b) /\ a <= b

(* |position - previousPosition| <= 0.01 and the same along z <= 0.05 *)
WithinThresholds(p) ==
  /\ Le(Length(VSub(p.position, p.oldPosition)), Scale \div 100)
  /\ Le(Abs(Sub(p.position.z, p.oldPosition.z)), (5 * Scale) \div 100)

(* C29: in every state where the mode is Idle, isClothStable() would       *)
(* return true, and every unpinned particle is within the two thresholds;  *)
(* the latter is not asked of a state in which a value written by the      *)
(* harness is still in place, which no simulate() call has looked at yet.  *)
IdleImpliesStable ==
  ~isSimulationActive =>
    /\ isClothStable(particles)
    /\ ~FaultPresent => \A i \in Unpinned : WithinThresholds(particles[i])

(* Idle through an explosion reset, the callback left pending by the       *)
(* resetting frame already run                                             *)
IdleImpliesStableWitness ==
  /\ ~isSimulationActive
  /\ resets = 1
  /\ injected.kind = "position"
  /\ ~FaultPresent
  /\ rafPending = {}
  /\ \A i \in Unpinned : particles[i].position = particles[i].oldPosition

(* ---- C30: the shape of the wind vector ---- *)
(* maxScrollVelocity * 0.15, the largest target of the scroll ease *)
maxWind == MulQ(maxScrollVelocity * Scale, 15, 100)

(* what the wind adds to the acceleration of p in simulate() *)
windShare(p, wf) ==
  VSub(applyForces(p, wf).acceleration, applyForces(p, Zero3).acceleration)

(* C30: in every state the x and z components of the wind force are 0 and  *)
(* its y component lies in [-2.25, 2.25]; in simulate() the wind acts on   *)
(* an unpinned particle as the force (0, 0, windForce.y).                  *)
WindVectorShape ==
  /\ [](/\ windForce.x = 0
        /\ windForce.z = 0
        /\ -maxWind <= windForce.y
        /\ windForce.y <= maxWind)
  /\ [][OneStep =>
          \A w \in {WindAtStep} : \A i \in Unpinned :
            windShare(particles[i], w) =
              Vec(0, 0, MulQ(w.y, MassDen * AccScale, Scale))]_vars

(* the wind at its largest, 2.25, after simulate() calls under it *)
WindVectorShapeWitness ==
  /\ windForce = Vec(0, maxWind, 0)
  /\ isSimulationActive
  /\ steps >= 3
  /\ \E i \in Unpinned : particles[i].position.z > 0

====
